---- MODULE Spec2Model ----
(***************************************************************************)
(* A model of the two OneTab recovery utilities:                           *)
(*   fix_onetab.py     (the reconstructor: backup, grouping, clear, write) *)
(*   extract_onetab.py (the scanner: scrape, merge, save, HTML export)     *)
(* Every run is single-threaded; pc is the position of main.               *)
(***************************************************************************)
EXTENDS Integers, Sequences, FiniteSets, TLC

VARIABLES
    pc,           \* position of the running main
    out,          \* set of messages printed to the operator so far
    ret,          \* return value of fix_extension / extract_onetab_data_from_files
    dirExists,    \* whether the directory given by --path exists
    dir,          \* names of the entries currently in the target directory
    dir0,         \* history: the entries of the directory when main started
    backup,       \* names of the files copied into the backup directory
    todo,         \* entries a glob loop has still to visit
    clear_db,     \* --clear-db
    recKind,      \* the records file: "missing", "malformed", "scalar", "list"
    recData,      \* the records it holds when recKind = "list"
    urls_data,    \* fix_extension: the loaded records
    url_groups,   \* fix_extension: ordered dict group name -> tabs
    onetab_state, \* fix_extension: the tabGroups of the state document
    stateFile,    \* onetab_state.json: <<>> while unwritten, else <<document>>
    clock,        \* int(time.time() * 1000), relative to the start of the run
    idx,          \* loop index of the running for loop
    nFiles,       \* scanner: how many *.ldb and *.log files the directory holds
    urls,         \* scanner: the urls found by url_pattern, in order
    tab_groups,   \* scanner: the decoded fragments that have a tabGroups key
    all_urls,     \* scanner: the merged records; export_to_html: its argument
    scanRet,      \* scanner: what extract_onetab_data_from_files returned
    written,      \* scanner: the output files written
    html,         \* scanner: the lines of the HTML bookmark file
    expected,     \* history: the records held by the documents in the scanned text
    repeats       \* history: the urls that occurred more than once in the scanned text

fixVars == <<pc, out, ret, dirExists, dir, dir0, backup, todo, clear_db, recKind,
             recData, urls_data, url_groups, onetab_state, stateFile, clock, idx>>

scanVars == <<nFiles, urls, tab_groups, all_urls, scanRet, written, html, expected, repeats>>

vars == <<fixVars, scanVars>>

-----------------------------------------------------------------------------
(* Bounds *)

MaxRecords == 3      \* longest record list given to fix_extension or export_to_html
MaxMainRecords == 1  \* longest record list in a run of the reconstructor's main
MaxFiles == 3        \* most entries in the target directory
MaxTick == 1         \* most milliseconds that pass between two clock reads
MaxScanFiles == 2    \* most storage files the scanner examines
MaxPieces == 2       \* most pieces of text in one storage file

(* Program constants *)

SleepMs == 10        \* time.sleep(0.01)

-----------------------------------------------------------------------------
(* Python helpers *)

Absent == "<absent>"          \* a key the dict does not have

\* dict.get(key, default)
Get(entry, key, default) == IF entry[key] = Absent THEN default ELSE entry[key]

Last(s) == s[Len(s)]

RECURSIVE SeqsUpTo(_, _)
SeqsUpTo(S, n) ==
    IF n = 0 THEN {<<>>}
    ELSE LET shorter == SeqsUpTo(S, n - 1)
         IN shorter \cup {Append(s, x) : s \in {t \in shorter : Len(t) = n - 1}, x \in S}

\* position of a key in an ordered dict (a sequence of [key, ...]); 0 if absent
KeyIndex(d, k) ==
    LET hits == {i \in 1..Len(d) : d[i].key = k}
    IN IF hits = {} THEN 0 ELSE CHOOSE i \in hits : TRUE

-----------------------------------------------------------------------------
(* Inputs *)

\* Records as json.load returns them: dicts that may lack title and group.
RecordUniverse ==
    { [url |-> "http://a", title |-> "A",    group |-> "G1"],
      [url |-> "http://b", title |-> "",     group |-> "G1"],
      [url |-> "http://a", title |-> "",     group |-> "Unknown Group"],
      [url |-> "http://c", title |-> "C",    group |-> "Unknown Group"],
      [url |-> "http://b", title |-> Absent, group |-> Absent] }

RecordLists == SeqsUpTo(RecordUniverse, MaxRecords)
MainRecordLists == SeqsUpTo(RecordUniverse, MaxMainRecords)

\* Directory entries: a name is its stem followed by its extension, if any.
Ldb1 == <<"000005", ".ldb">>
Log1 == <<"000003", ".log">>
Current == <<"CURRENT">>
Lock == <<"LOCK">>
SubDir == <<"sub">>
LdbDir == <<"old", ".ldb">>

EntryNames == {Ldb1, Log1, Current, Lock, SubDir, LdbDir}

\* os.path.isfile
IsFile(name) == name \notin {SubDir, LdbDir}

\* Path(extension_path).glob("*" + ext) over the entries present
Glob(entries, ext) == {n \in entries : Last(n) = ext}

\* str(file_path).endswith(suffix), on the last component of the name
EndsWith(name, suffix) == Last(name) = suffix

-----------------------------------------------------------------------------
(* fix_onetab.py *)

\* the scanner's state while the reconstructor runs
NoReturn == [tuple |-> FALSE, success |-> FALSE, urls |-> <<>>]

ScanIdle ==
    /\ nFiles = 0
    /\ urls = <<>>
    /\ tab_groups = <<>>
    /\ all_urls = <<>>
    /\ scanRet = NoReturn
    /\ written = {}
    /\ html = <<>>
    /\ expected = {}
    /\ repeats = {}

InitFix ==
    /\ pc = "start"
    /\ out = {}
    /\ ret = "none"
    /\ dirExists \in BOOLEAN
    /\ dir \in {d \in SUBSET EntryNames : Cardinality(d) <= MaxFiles /\ (~dirExists => d = {})}
    /\ dir0 = dir
    /\ backup = {}
    /\ todo = {}
    /\ clear_db \in BOOLEAN
    /\ recKind \in {"missing", "malformed", "scalar", "list"}
    /\ recData \in IF recKind = "list" THEN MainRecordLists ELSE {<<>>}
    /\ urls_data = <<>>
    /\ url_groups = <<>>
    /\ onetab_state = <<>>
    /\ stateFile = <<>>
    /\ clock = 0
    /\ idx = 0
    /\ ScanIdle

\* fix_extension(extension_path, urls_json_path) called on an existing directory
\* with a records file that holds a list; clear_db has its default, False
InitGroup ==
    /\ pc = "fix_load"
    /\ out = {}
    /\ ret = "none"
    /\ dirExists = TRUE
    /\ dir = {Ldb1, Current}
    /\ dir0 = dir
    /\ backup = {}
    /\ todo = {}
    /\ clear_db = FALSE
    /\ recKind = "list"
    /\ recData \in RecordLists
    /\ urls_data = <<>>
    /\ url_groups = <<>>
    /\ onetab_state = <<>>
    /\ stateFile = <<>>
    /\ clock = 0
    /\ idx = 0
    /\ ScanIdle

\* backup_extension_data: makedirs, then the glob("*") loop or the warning
BackupBegin ==
    /\ pc = "start"
    /\ \/ /\ dirExists
          /\ todo' = dir
          /\ pc' = "backup"
          /\ out' = out \cup {"creating_backup"}
       \/ /\ ~dirExists
          /\ todo' = {}
          /\ pc' = "fix"
          /\ out' = out \cup {"creating_backup", "warn_no_extension_path", "backup_created"}
    /\ UNCHANGED scanVars
    /\ UNCHANGED <<ret, dirExists, dir, dir0, backup, clear_db, recKind, recData,
                   urls_data, url_groups, onetab_state, stateFile, clock, idx>>

\* faulty variant: the backup loop copies only the data files it recognises
CopyEntry_OnlyLdb(f, copied) == IF IsFile(f) /\ Last(f) = ".ldb" THEN copied \cup {f} ELSE copied

\* the body of the backup loop: isfile, shutil.copy2
CopyEntry(f, copied) == IF IsFile(f) THEN copied \cup {f} ELSE copied

BackupCopy ==
    /\ pc = "backup"
    /\ \E f \in todo :
          /\ backup' = CopyEntry(f, backup)
          /\ todo' = todo \ {f}
    /\ UNCHANGED scanVars
    /\ UNCHANGED <<pc, out, ret, dirExists, dir, dir0, clear_db, recKind, recData,
                   urls_data, url_groups, onetab_state, stateFile, clock, idx>>

\* shutil.copy2 raises (unreadable file, full disk): main ends with the traceback
BackupCopyFail ==
    /\ pc = "backup"
    /\ \E f \in todo : IsFile(f)
    /\ pc' = "crashed"
    /\ UNCHANGED scanVars
    /\ UNCHANGED <<out, ret, dirExists, dir, dir0, backup, todo, clear_db, recKind,
                   recData, urls_data, url_groups, onetab_state, stateFile, clock, idx>>

BackupEnd ==
    /\ pc = "backup"
    /\ todo = {}
    /\ pc' = "fix"
    /\ out' = out \cup {"backup_completed", "backup_created"}
    /\ UNCHANGED scanVars
    /\ UNCHANGED <<ret, dirExists, dir, dir0, backup, todo, clear_db, recKind, recData,
                   urls_data, url_groups, onetab_state, stateFile, clock, idx>>

\* faulty variant: a load error is swallowed and the run goes on with no records
LoadRecords_Swallow(kind, data) ==
    IF kind = "list" THEN [ok |-> TRUE, data |-> data] ELSE [ok |-> TRUE, data |-> <<>>]

\* open + json.load + len: the value read, or the exception caught
LoadRecords(kind, data) ==
    IF kind = "list" THEN [ok |-> TRUE, data |-> data] ELSE [ok |-> FALSE, data |-> <<>>]

\* fix_extension: "if not os.path.exists(extension_path)"
FixNoPath ==
    /\ pc = "fix"
    /\ ~dirExists
    /\ out' = out \cup {"error_no_extension_path"}
    /\ ret' = "False"
    /\ pc' = "report"
    /\ UNCHANGED scanVars
    /\ UNCHANGED <<dirExists, dir, dir0, backup, todo, clear_db, recKind, recData,
                   urls_data, url_groups, onetab_state, stateFile, clock, idx>>

FixPathOk ==
    /\ pc = "fix"
    /\ dirExists
    /\ pc' = "fix_json"
    /\ UNCHANGED scanVars
    /\ UNCHANGED <<out, ret, dirExists, dir, dir0, backup, todo, clear_db, recKind,
                   recData, urls_data, url_groups, onetab_state, stateFile, clock, idx>>

\* fix_extension: "if not os.path.exists(urls_json_path)"
FixNoJson ==
    /\ pc = "fix_json"
    /\ recKind = "missing"
    /\ out' = out \cup {"error_no_urls_json"}
    /\ ret' = "False"
    /\ pc' = "report"
    /\ UNCHANGED scanVars
    /\ UNCHANGED <<dirExists, dir, dir0, backup, todo, clear_db, recKind, recData,
                   urls_data, url_groups, onetab_state, stateFile, clock, idx>>

FixJsonOk ==
    /\ pc = "fix_json"
    /\ recKind # "missing"
    /\ pc' = "fix_load"
    /\ UNCHANGED scanVars
    /\ UNCHANGED <<out, ret, dirExists, dir, dir0, backup, todo, clear_db, recKind,
                   recData, urls_data, url_groups, onetab_state, stateFile, clock, idx>>

\* fix_extension: the try block that loads the records
FixLoad ==
    /\ pc = "fix_load"
    /\ LET loaded == LoadRecords(recKind, recData)
       IN IF loaded.ok
          THEN /\ urls_data' = loaded.data
               /\ out' = out \cup {"loaded_urls"}
               /\ idx' = 1
               /\ pc' = "grouping"
               /\ UNCHANGED ret
          ELSE /\ out' = out \cup {"error_loading_urls"}
               /\ ret' = "False"
               /\ pc' = "report"
               /\ UNCHANGED <<urls_data, idx>>
    /\ UNCHANGED scanVars
    /\ UNCHANGED <<dirExists, dir, dir0, backup, todo, clear_db, recKind, recData,
                   url_groups, onetab_state, stateFile, clock>>

\* the tab identifier f"tab_{int(time.time() * 1000)}_{len(url_groups[group_name])}"
TabId(ms, n) == <<"tab", ms, n>>

\* the group identifier f"group_{int(time.time() * 1000)}_{len(onetab_state['tabGroups'])}"
GroupId(ms, n) == <<"group", ms, n>>

\* one iteration of "for entry in urls_data"
AddEntry(groups, entry, ms) ==
    LET group_name == Get(entry, "group", "Unnamed Group")
        withKey == IF KeyIndex(groups, group_name) = 0
                   THEN Append(groups, [key |-> group_name, tabs |-> <<>>])
                   ELSE groups
        i == KeyIndex(withKey, group_name)
        tab == [id |-> TabId(ms, Len(withKey[i].tabs)),
                url |-> entry.url,
                title |-> Get(entry, "title", entry.url)]
    IN [withKey EXCEPT ![i].tabs = Append(@, tab)]

GroupEntry ==
    /\ pc = "grouping"
    /\ idx <= Len(urls_data)
    /\ \E d \in 0..MaxTick :
          /\ clock' = clock + d
          /\ url_groups' = AddEntry(url_groups, urls_data[idx], clock')
    /\ idx' = idx + 1
    /\ UNCHANGED scanVars
    /\ UNCHANGED <<pc, out, ret, dirExists, dir, dir0, backup, todo, clear_db, recKind,
                   recData, urls_data, onetab_state, stateFile>>

GroupingDone ==
    /\ pc = "grouping"
    /\ idx > Len(urls_data)
    /\ idx' = 1
    /\ pc' = "building"
    /\ UNCHANGED scanVars
    /\ UNCHANGED <<out, ret, dirExists, dir, dir0, backup, todo, clear_db, recKind,
                   recData, urls_data, url_groups, onetab_state, stateFile, clock>>

\* faulty variant: the placeholder is kept as the display name
GroupName_Keep(group_name) == group_name

\* the display name of a group
GroupName(group_name) == IF group_name # "Unknown Group" THEN group_name ELSE ""

\* one iteration of "for group_name, tabs in url_groups.items()", before the sleep
AddGroup(state, g, ms) ==
    Append(state, [id |-> GroupId(ms, Len(state)),
                   name |-> GroupName(g.key),
                   tabs |-> g.tabs])

BuildGroup ==
    /\ pc = "building"
    /\ idx <= Len(url_groups)
    /\ \E d \in 0..MaxTick :
          /\ onetab_state' = AddGroup(onetab_state, url_groups[idx], clock + d)
          /\ clock' = clock + d + SleepMs
    /\ idx' = idx + 1
    /\ UNCHANGED scanVars
    /\ UNCHANGED <<pc, out, ret, dirExists, dir, dir0, backup, todo, clear_db, recKind,
                   recData, urls_data, url_groups, stateFile>>

\* "if clear_db:" taken: the *.ldb loop starts
ClearBegin ==
    /\ pc = "building"
    /\ idx > Len(url_groups)
    /\ clear_db
    /\ todo' = Glob(dir, ".ldb")
    /\ out' = out \cup {"attempting_fix", "warn_clearing"}
    /\ pc' = "clear_ldb"
    /\ UNCHANGED scanVars
    /\ UNCHANGED <<ret, dirExists, dir, dir0, backup, clear_db, recKind, recData,
                   urls_data, url_groups, onetab_state, stateFile, clock, idx>>

\* "if clear_db:" not taken
ClearSkip ==
    /\ pc = "building"
    /\ idx > Len(url_groups)
    /\ ~clear_db
    /\ out' = out \cup {"attempting_fix"}
    /\ pc' = "write"
    /\ UNCHANGED scanVars
    /\ UNCHANGED <<ret, dirExists, dir, dir0, backup, todo, clear_db, recKind, recData,
                   urls_data, url_groups, onetab_state, stateFile, clock, idx>>

\* os.remove succeeds on a regular file
RemoveEntry(entries, f) == entries \ {f}

RemoveLdb ==
    /\ pc = "clear_ldb"
    /\ \E f \in todo :
          /\ IsFile(f)
          /\ dir' = RemoveEntry(dir, f)
          /\ todo' = todo \ {f}
    /\ UNCHANGED scanVars
    /\ UNCHANGED <<pc, out, ret, dirExists, dir0, backup, clear_db, recKind, recData,
                   urls_data, url_groups, onetab_state, stateFile, clock, idx>>

LdbDone ==
    /\ pc = "clear_ldb"
    /\ todo = {}
    /\ todo' = Glob(dir, ".log")
    /\ pc' = "clear_log"
    /\ UNCHANGED scanVars
    /\ UNCHANGED <<out, ret, dirExists, dir, dir0, backup, clear_db, recKind, recData,
                   urls_data, url_groups, onetab_state, stateFile, clock, idx>>

\* faulty variant: the skip also catches every *.log file
IsControlFile_AnyLog(f) == EndsWith(f, "CURRENT") \/ EndsWith(f, "LOCK") \/ EndsWith(f, ".log")

\* the "continue" of the *.log loop
IsControlFile(f) == EndsWith(f, "CURRENT") \/ EndsWith(f, "LOCK")

RemoveLog ==
    /\ pc = "clear_log"
    /\ \E f \in todo :
          /\ IsFile(f)
          /\ dir' = IF IsControlFile(f) THEN dir ELSE RemoveEntry(dir, f)
          /\ todo' = todo \ {f}
    /\ UNCHANGED scanVars
    /\ UNCHANGED <<pc, out, ret, dirExists, dir0, backup, clear_db, recKind, recData,
                   urls_data, url_groups, onetab_state, stateFile, clock, idx>>

\* os.remove raises (a directory, a permission error): "except Exception" returns False
RemoveFail ==
    /\ pc \in {"clear_ldb", "clear_log"}
    /\ \E f \in todo : ~IsControlFile(f)
    /\ out' = out \cup {"error_clearing"}
    /\ ret' = "False"
    /\ pc' = "report"
    /\ UNCHANGED scanVars
    /\ UNCHANGED <<dirExists, dir, dir0, backup, todo, clear_db, recKind, recData,
                   urls_data, url_groups, onetab_state, stateFile, clock, idx>>

LogDone ==
    /\ pc = "clear_log"
    /\ todo = {}
    /\ out' = out \cup {"database_cleared"}
    /\ pc' = "write"
    /\ UNCHANGED scanVars
    /\ UNCHANGED <<ret, dirExists, dir, dir0, backup, todo, clear_db, recKind, recData,
                   urls_data, url_groups, onetab_state, stateFile, clock, idx>>

\* json.dump of the state document, the printed instructions, return True
WriteState ==
    /\ pc = "write"
    /\ stateFile' = <<[tabGroups |-> onetab_state]>>
    /\ out' = out \cup {"created_state_file", "instructions"}
    /\ ret' = "True"
    /\ pc' = "report"
    /\ UNCHANGED scanVars
    /\ UNCHANGED <<dirExists, dir, dir0, backup, todo, clear_db, recKind, recData,
                   urls_data, url_groups, onetab_state, clock, idx>>

\* main, after fix_extension returned
FixReport ==
    /\ pc = "report"
    /\ out' = out \cup {IF ret = "True" THEN "fix_applied" ELSE "failed_no_changes"}
    /\ pc' = "done"
    /\ UNCHANGED scanVars
    /\ UNCHANGED <<ret, dirExists, dir, dir0, backup, todo, clear_db, recKind, recData,
                   urls_data, url_groups, onetab_state, stateFile, clock, idx>>

NextFix ==
    \/ BackupBegin \/ BackupCopy \/ BackupCopyFail \/ BackupEnd
    \/ FixNoPath \/ FixPathOk \/ FixNoJson \/ FixJsonOk \/ FixLoad
    \/ GroupEntry \/ GroupingDone \/ BuildGroup \/ ClearBegin \/ ClearSkip
    \/ RemoveLdb \/ LdbDone \/ RemoveLog \/ RemoveFail \/ LogDone
    \/ WriteState \/ FixReport

\* a run of main of fix_onetab.py
SpecFix == InitFix /\ [][NextFix]_vars

NextGroup ==
    \/ FixLoad \/ GroupEntry \/ GroupingDone \/ BuildGroup \/ ClearSkip \/ WriteState

\* a call of fix_extension with clear_db = False
SpecGroup == InitGroup /\ [][NextGroup]_vars

-----------------------------------------------------------------------------
(* extract_onetab.py: the text of a storage file, as the lexemes "strings" prints *)

\* A lexeme is <<kind, text>>: "p" punctuation, "s" a double-quoted string,
\* "n" a number, "k" one of null/true/false, "w" any other run of text.
Tok(kind, text) == <<kind, text>>
LBrace == Tok("p", "{")
RBrace == Tok("p", "}")
LBracket == Tok("p", "[")
RBracket == Tok("p", "]")
Comma == Tok("p", ",")
Colon == Tok("p", ":")
Str(text) == Tok("s", text)

UrlTexts == {"http://a", "http://b", "http://c"}

\* url_pattern.findall(content): r'https?://[^\s"\']+' matches inside a quoted
\* string and in bare text, up to the closing quote or the next space
UrlMatches(content) ==
    LET isUrl(t) == t[1] \in {"s", "w"} /\ t[2] \in UrlTexts
        hits == SelectSeq(content, isUrl)
    IN [i \in 1..Len(hits) |-> hits[i][2]]

\* 'tabGroups' in content
MentionsTabGroups(content) ==
    \E i \in 1..Len(content) : content[i][1] \in {"s", "w"} /\ content[i][2] = "tabGroups"

\* the least element of a non-empty set of numbers
Least(S) == CHOOSE i \in S : \A k \in S : i <= k

\* faulty variant: the fragment runs to the brace that closes the one it opens with
RECURSIVE BalancedEnd(_, _, _)
BalancedEnd(content, i, depth) ==
    IF i > Len(content) THEN 0
    ELSE IF content[i] = LBrace THEN BalancedEnd(content, i + 1, depth + 1)
    ELSE IF content[i] = RBrace
         THEN IF depth = 1 THEN i ELSE BalancedEnd(content, i + 1, depth - 1)
    ELSE BalancedEnd(content, i + 1, depth)

FragmentEnd_Balanced(content, start, key) == BalancedEnd(content, start, 0)

\* [^}]*?} after "tabGroups": the fragment ends at the first closing brace; 0 if none
FragmentEnd(content, start, key) ==
    LET closes == {e \in key + 1..Len(content) : content[e] = RBrace}
    IN IF closes = {} THEN 0 ELSE Least(closes)

\* the match of r'({[^{]*?"tabGroups"[^}]*?})' that starts at i: <<i, end>>, or <<>>
MatchAt(content, i) ==
    IF content[i] # LBrace THEN <<>>
    ELSE LET keys == {k \in i + 1..Len(content) : content[k] = Str("tabGroups")}
         IN IF keys = {} THEN <<>>
            ELSE LET k == Least(keys)
                     e == FragmentEnd(content, i, k)
                 IN IF (\E j \in i + 1..k - 1 : content[j] = LBrace) \/ e = 0
                    THEN <<>>
                    ELSE <<i, e>>

\* re.finditer: the non-overlapping matches from position pos on, leftmost first
RECURSIVE FindMatches(_, _)
FindMatches(content, pos) ==
    IF pos > Len(content) THEN <<>>
    ELSE LET m == MatchAt(content, pos)
         IN IF m = <<>> THEN FindMatches(content, pos + 1)
            ELSE <<SubSeq(content, m[1], m[2])>> \o FindMatches(content, m[2] + 1)

-----------------------------------------------------------------------------
(* json.loads on a sequence of lexemes *)

\* Python values: t is the type, v the characters, the items or the key/value pairs
JNull == [t |-> "null", v |-> ""]
NoParse == [ok |-> FALSE, val |-> JNull, next |-> 0]

RECURSIVE ParseValue(_, _), ParseMembers(_, _, _), ParseElements(_, _, _)

ParseValue(toks, i) ==
    IF i > Len(toks) THEN NoParse
    ELSE IF toks[i][1] = "s" THEN [ok |-> TRUE, val |-> [t |-> "str", v |-> toks[i][2]], next |-> i + 1]
    ELSE IF toks[i][1] = "n" THEN [ok |-> TRUE, val |-> [t |-> "num", v |-> toks[i][2]], next |-> i + 1]
    ELSE IF toks[i][1] = "k" THEN [ok |-> TRUE, val |-> [t |-> "null", v |-> toks[i][2]], next |-> i + 1]
    ELSE IF toks[i] = LBrace
         THEN IF i + 1 <= Len(toks) /\ toks[i + 1] = RBrace
              THEN [ok |-> TRUE, val |-> [t |-> "obj", v |-> <<>>], next |-> i + 2]
              ELSE ParseMembers(toks, i + 1, <<>>)
    ELSE IF toks[i] = LBracket
         THEN IF i + 1 <= Len(toks) /\ toks[i + 1] = RBracket
              THEN [ok |-> TRUE, val |-> [t |-> "arr", v |-> <<>>], next |-> i + 2]
              ELSE ParseElements(toks, i + 1, <<>>)
    ELSE NoParse

\* "key": value, then "," and more members, or "}"
ParseMembers(toks, i, acc) ==
    IF i + 1 > Len(toks) \/ toks[i][1] # "s" \/ toks[i + 1] # Colon THEN NoParse
    ELSE LET r == ParseValue(toks, i + 2)
         IN IF ~r.ok \/ r.next > Len(toks) THEN NoParse
            ELSE LET more == Append(acc, [k |-> toks[i][2], val |-> r.val])
                 IN IF toks[r.next] = RBrace
                    THEN [ok |-> TRUE, val |-> [t |-> "obj", v |-> more], next |-> r.next + 1]
                    ELSE IF toks[r.next] = Comma THEN ParseMembers(toks, r.next + 1, more)
                    ELSE NoParse

\* value, then "," and more elements, or "]"
ParseElements(toks, i, acc) ==
    LET r == ParseValue(toks, i)
    IN IF ~r.ok \/ r.next > Len(toks) THEN NoParse
       ELSE LET more == Append(acc, r.val)
            IN IF toks[r.next] = RBracket
               THEN [ok |-> TRUE, val |-> [t |-> "arr", v |-> more], next |-> r.next + 1]
               ELSE IF toks[r.next] = Comma THEN ParseElements(toks, r.next + 1, more)
               ELSE NoParse

\* json.loads(json_str): the whole text must be one value
JsonLoads(toks) ==
    LET r == ParseValue(toks, 1)
    IN IF r.ok /\ r.next = Len(toks) + 1 THEN r ELSE NoParse

\* key in d, for a Python value d
HasKey(d, key) == d.t = "obj" /\ \E i \in 1..Len(d.v) : d.v[i].k = key

\* d[key]: the last pair with that key wins
Lookup(d, key) == d.v[CHOOSE i \in 1..Len(d.v) : d.v[i].k = key /\ \A j \in i + 1..Len(d.v) : d.v[j].k # key].val

\* len(x) raises TypeError for a number, None, True or False
HasLen(x) == x.t \in {"obj", "arr", "str"}

\* the items a for loop over x visits that can be dicts: those of a list
\* (a str yields characters, a dict its keys)
Items(x) == IF x.t = "arr" THEN x.v ELSE <<>>

\* a JSON scalar as the str, int or None that ends up in a record
Scalar(x) == IF x.t \in {"str", "num", "null"} THEN x.v ELSE "<nested>"

-----------------------------------------------------------------------------
(* The text the scanner may meet *)

\* A state document as the extension stores it: groups with an optional name,
\* tabs with a url and an optional title.
TabA == [url |-> "http://a", title |-> "A"]
TabB == [url |-> "http://b", title |-> Absent]
GroupA == [name |-> "G1", tabs |-> <<TabA>>]
GroupB == [name |-> Absent, tabs |-> <<TabA, TabB>>]

Documents == {<<>>, <<GroupA>>, <<GroupB>>, <<GroupA, GroupB>>}

RECURSIVE Flatten(_)
Flatten(ss) == IF ss = <<>> THEN <<>> ELSE Head(ss) \o Flatten(Tail(ss))

\* "[" items separated by "," "]"
RECURSIVE Joined(_)
Joined(items) ==
    IF items = <<>> THEN <<>>
    ELSE IF Len(items) = 1 THEN items[1]
    ELSE items[1] \o <<Comma>> \o Joined(Tail(items))

SerializeList(items) == <<LBracket>> \o Joined(items) \o <<RBracket>>

SerializeTab(tab) ==
    <<LBrace, Str("url"), Colon, Str(tab.url)>>
    \o (IF tab.title = Absent THEN <<>> ELSE <<Comma, Str("title"), Colon, Str(tab.title)>>)
    \o <<RBrace>>

SerializeGroup(g) ==
    <<LBrace>>
    \o (IF g.name = Absent THEN <<>> ELSE <<Str("name"), Colon, Str(g.name), Comma>>)
    \o <<Str("tabs"), Colon>>
    \o SerializeList([j \in 1..Len(g.tabs) |-> SerializeTab(g.tabs[j])])
    \o <<RBrace>>

\* the JSON text {"tabGroups": [...]} of a state document
SerializeDoc(doc) ==
    <<LBrace, Str("tabGroups"), Colon>>
    \o SerializeList([i \in 1..Len(doc) |-> SerializeGroup(doc[i])])
    \o <<RBrace>>

\* Other text found in storage files: bare urls, small JSON objects that
\* mention tabGroups, stray braces and words.
RawPieces ==
    { <<Tok("w", "http://a")>>,
      <<Tok("w", "http://c")>>,
      <<LBrace, Str("tabGroups"), Colon, Tok("n", "5"), RBrace>>,
      <<LBrace, Str("tabGroups"), Colon, LBracket, Str("http://b"), RBracket, RBrace>>,
      <<LBrace, Str("x"), Colon, Str("tabGroups"), RBrace>>,
      <<LBrace>>,
      <<RBrace>>,
      <<Tok("w", "tabGroups")>> }

Pieces == RawPieces \cup {SerializeDoc(doc) : doc \in Documents}

PieceLists == SeqsUpTo(Pieces, MaxPieces)

Range(f) == {f[i] : i \in DOMAIN f}

-----------------------------------------------------------------------------
(* extract_onetab.py: extract_onetab_data_from_files *)

\* the loop over json_matches from the n-th match on: the tab_groups after it,
\* and whether len(data['tabGroups']) raised out of it
RECURSIVE DecodeMatches(_, _, _)
DecodeMatches(matches, n, groups) ==
    IF n > Len(matches) THEN [raised |-> FALSE, tab_groups |-> groups]
    ELSE LET r == JsonLoads(matches[n])
         IN IF r.ok /\ HasKey(r.val, "tabGroups")
            THEN IF HasLen(Lookup(r.val, "tabGroups"))
                 THEN DecodeMatches(matches, n + 1, Append(groups, r.val))
                 ELSE [raised |-> TRUE, tab_groups |-> Append(groups, r.val)]
            ELSE DecodeMatches(matches, n + 1, groups)

\* "if url not in urls: urls.append(url)" for the matches from the n-th on
RECURSIVE AddUrls(_, _, _)
AddUrls(found_before, found, n) ==
    IF n > Len(found) THEN found_before
    ELSE AddUrls(IF found[n] \in Range(found_before) THEN found_before
                 ELSE Append(found_before, found[n]),
                 found, n + 1)

\* what the try block reads off one file's text: the fragments it decodes
\* (until len raises) and the url matches
ScanText(content) ==
    [decoded |-> IF MentionsTabGroups(content)
                 THEN DecodeMatches(FindMatches(content, 1), 1, <<>>)
                 ELSE [raised |-> FALSE, tab_groups |-> <<>>],
     found |-> UrlMatches(content)]

\* the try block run on one file's text: tab_groups.append for each decoded
\* fragment, then, unless len raised, the urls
ProcessFile(scan, found_before, groups) ==
    [tab_groups |-> groups \o scan.decoded.tab_groups,
     urls |-> IF scan.decoded.raised THEN found_before
              ELSE AddUrls(found_before, scan.found, 1),
     raised |-> scan.decoded.raised]

\* group.get('tabs', []) when the group is a dict with a tabs key
TabsOf(group) ==
    IF group.t = "obj" /\ HasKey(group, "tabs") THEN Lookup(group, "tabs")
    ELSE [t |-> "arr", v |-> <<>>]

\* the record appended for a tab of a group
RecordOf(group, tab) ==
    [url |-> Scalar(Lookup(tab, "url")),
     title |-> IF HasKey(tab, "title") THEN Scalar(Lookup(tab, "title")) ELSE "",
     group |-> IF HasKey(group, "name") THEN Scalar(Lookup(group, "name")) ELSE "Unnamed Group"]

GroupRecords(group) ==
    LET isTab(tab) == tab.t = "obj" /\ HasKey(tab, "url")
        tabs == SelectSeq(Items(TabsOf(group)), isTab)
    IN [j \in 1..Len(tabs) |-> RecordOf(group, tabs[j])]

DataRecords(group_data) ==
    LET groups == Items(Lookup(group_data, "tabGroups"))
    IN Flatten([i \in 1..Len(groups) |-> GroupRecords(groups[i])])

\* "Get URLs from tab groups"
StructuralRecords(groups) == Flatten([i \in 1..Len(groups) |-> DataRecords(groups[i])])

\* a for loop over a number, None, True or False raises TypeError
MergeRaises(groups) ==
    \E i \in 1..Len(groups) :
        LET tg == Lookup(groups[i], "tabGroups")
        IN \/ ~HasLen(tg)
           \/ \E j \in 1..Len(Items(tg)) : ~HasLen(TabsOf(Items(tg)[j]))

\* "Add URLs found via regex that aren't already in the list", from the n-th on
RECURSIVE MergeUrls(_, _, _)
MergeUrls(merged, found, n) ==
    IF n > Len(found) THEN merged
    ELSE MergeUrls(IF found[n] \in {merged[i].url : i \in 1..Len(merged)} THEN merged
                   ELSE Append(merged, [url |-> found[n], title |-> "", group |-> "Unknown Group"]),
                   found, n + 1)

-----------------------------------------------------------------------------
(* extract_onetab.py: export_to_html *)

\* an HTML line: <<tag, first attribute or text, text>>
Line(tag, a, b) == <<tag, a, b>>

HtmlHeader == <<Line("H1", "Bookmarks", ""), Line("DL", "", ""),
                Line("H3", "Recovered OneTab URLs", ""), Line("DL", "", "")>>
HtmlFooter == <<Line("/DL", "", ""), Line("/DL", "", "")>>

\* faulty variant: a group seen again starts over with the new entry
AddToGroup_Restart(groups, entry) ==
    LET group == Get(entry, "group", "Unknown Group")
    IN IF KeyIndex(groups, group) = 0
       THEN Append(groups, [key |-> group, entries |-> <<entry>>])
       ELSE [groups EXCEPT ![KeyIndex(groups, group)].entries = <<entry>>]

\* one iteration of "for entry in urls"
AddToGroup(groups, entry) ==
    LET group == Get(entry, "group", "Unknown Group")
    IN IF KeyIndex(groups, group) = 0
       THEN Append(groups, [key |-> group, entries |-> <<entry>>])
       ELSE [groups EXCEPT ![KeyIndex(groups, group)].entries = Append(@, entry)]

RECURSIVE GroupByLabel(_, _, _)
GroupByLabel(groups, entries, n) ==
    IF n > Len(entries) THEN groups
    ELSE GroupByLabel(AddToGroup(groups, entries[n]), entries, n + 1)

\* the link text: the title, or the url when the title is missing or empty
LinkText(entry) ==
    LET title == Get(entry, "title", entry.url)
    IN IF title = "" THEN entry.url ELSE title

SectionLines(g) ==
    <<Line("H3", g.key, ""), Line("DL", "", "")>>
    \o [j \in 1..Len(g.entries) |-> Line("A", g.entries[j].url, LinkText(g.entries[j]))]
    \o <<Line("/DL", "", "")>>

ExportToHtml(entries) ==
    LET groups == GroupByLabel(<<>>, entries, 1)
    IN HtmlHeader \o Flatten([i \in 1..Len(groups) |-> SectionLines(groups[i])]) \o HtmlFooter

-----------------------------------------------------------------------------
(* extract_onetab.py: main *)

FixIdle ==
    /\ dir = {} /\ dir0 = {} /\ backup = {} /\ todo = {}
    /\ clear_db = FALSE /\ recKind = "missing" /\ recData = <<>>
    /\ urls_data = <<>> /\ url_groups = <<>> /\ onetab_state = <<>>
    /\ stateFile = <<>> /\ clock = 0 /\ ret = "none"

fixOnly == <<ret, dir, dir0, backup, todo, clear_db, recKind, recData, urls_data,
             url_groups, onetab_state, stateFile, clock>>

InitScan ==
    /\ pc = "scan"
    /\ out = {}
    /\ dirExists \in BOOLEAN
    /\ nFiles \in IF dirExists THEN 0..MaxScanFiles ELSE {0}
    /\ idx = 0
    /\ urls = <<>>
    /\ tab_groups = <<>>
    /\ all_urls = <<>>
    /\ scanRet = NoReturn
    /\ written = {}
    /\ html = <<>>
    /\ expected = {}
    /\ repeats = {}
    /\ FixIdle

\* "if not os.path.isdir(leveldb_path): ... return False"
ScanNoDir ==
    /\ pc = "scan"
    /\ ~dirExists
    /\ out' = out \cup {"error_no_directory"}
    /\ scanRet' = [tuple |-> FALSE, success |-> FALSE, urls |-> <<>>]
    /\ pc' = "returned"
    /\ UNCHANGED <<dirExists, idx, nFiles, urls, tab_groups, all_urls, written, html,
                   expected, repeats>>
    /\ UNCHANGED fixOnly

\* "if not ldb_files: ... return False"
ScanNoFiles ==
    /\ pc = "scan"
    /\ dirExists
    /\ nFiles = 0
    /\ out' = out \cup {"no_files_found"}
    /\ scanRet' = [tuple |-> FALSE, success |-> FALSE, urls |-> <<>>]
    /\ pc' = "returned"
    /\ UNCHANGED <<dirExists, idx, nFiles, urls, tab_groups, all_urls, written, html,
                   expected, repeats>>
    /\ UNCHANGED fixOnly

ScanBegin ==
    /\ pc = "scan"
    /\ dirExists
    /\ nFiles > 0
    /\ out' = out \cup {"found_files"}
    /\ idx' = 1
    /\ pc' = "scanning"
    /\ UNCHANGED <<dirExists, nFiles, urls, tab_groups, all_urls, scanRet, written, html,
                   expected, repeats>>
    /\ UNCHANGED fixOnly

\* the records a state document holds, as the scanner is to report them
RecordsOfDoc(doc) ==
    { [url |-> doc[i].tabs[j].url,
       title |-> IF doc[i].tabs[j].title = Absent THEN "" ELSE doc[i].tabs[j].title,
       group |-> IF doc[i].name = Absent THEN "Unnamed Group" ELSE doc[i].name] :
      <<i, j>> \in {p \in (1..Len(doc)) \X (1..2) : p[2] <= Len(doc[p[1]].tabs)} }

\* the url matches that occur for the second time, counting earlier files
Repeated(found, found_before) ==
    {found[i] : i \in {k \in 1..Len(found) :
                          \/ found[k] \in Range(found_before)
                          \/ \E m \in 1..k - 1 : found[m] = found[k]}}

\* the texts strings may print for a file, each with what the try block reads
\* off it and with the records of the state documents it holds
FileTexts ==
    { [scan |-> ScanText(Flatten(pieces)),
       docs |-> UNION {RecordsOfDoc(doc) : doc \in {d \in Documents : SerializeDoc(d) \in Range(pieces)}}] :
      pieces \in PieceLists }

\* one iteration of "for ldb_file in ldb_files": strings prints the text
ScanFile ==
    /\ pc = "scanning"
    /\ idx <= nFiles
    /\ \E text \in FileTexts :
          LET r == ProcessFile(text.scan, urls, tab_groups)
          IN /\ urls' = r.urls
             /\ tab_groups' = r.tab_groups
             /\ out' = out \cup (IF r.raised THEN {"error_processing_file"} ELSE {})
             /\ expected' = expected \cup text.docs
             /\ repeats' = repeats \cup Repeated(text.scan.found, urls)
    /\ idx' = idx + 1
    /\ UNCHANGED <<pc, dirExists, nFiles, all_urls, scanRet, written, html>>
    /\ UNCHANGED fixOnly

\* subprocess.run raises (no strings command): "except Exception" goes on
ScanFileError ==
    /\ pc = "scanning"
    /\ idx <= nFiles
    /\ out' = out \cup {"error_processing_file"}
    /\ idx' = idx + 1
    /\ UNCHANGED <<pc, dirExists, nFiles, urls, tab_groups, all_urls, scanRet, written, html,
                   expected, repeats>>
    /\ UNCHANGED fixOnly

\* "Process the extracted data" raises TypeError: nothing catches it
ScanMergeRaises ==
    /\ pc = "scanning"
    /\ idx > nFiles
    /\ MergeRaises(tab_groups)
    /\ pc' = "crashed"
    /\ UNCHANGED <<out, dirExists, idx, nFiles, urls, tab_groups, all_urls, scanRet, written, html,
                   expected, repeats>>
    /\ UNCHANGED fixOnly

\* "Process the extracted data", "Save results" and the return
ScanMerge ==
    /\ pc = "scanning"
    /\ idx > nFiles
    /\ ~MergeRaises(tab_groups)
    /\ all_urls' = MergeUrls(StructuralRecords(tab_groups), urls, 1)
    /\ IF all_urls' # <<>>
       THEN /\ written' = written \cup {"json", "txt"}
            /\ out' = out \cup {"extracted_saved"}
            /\ scanRet' = [tuple |-> TRUE, success |-> TRUE, urls |-> all_urls']
       ELSE /\ written' = written
            /\ out' = out \cup {"no_urls_found"}
            /\ scanRet' = [tuple |-> TRUE, success |-> FALSE, urls |-> <<>>]
    /\ pc' = "returned"
    /\ UNCHANGED <<dirExists, idx, nFiles, urls, tab_groups, html, expected, repeats>>
    /\ UNCHANGED fixOnly

\* "success, urls = ..." on a bare False: TypeError, main ends with the traceback
MainUnpackRaises ==
    /\ pc = "returned"
    /\ ~scanRet.tuple
    /\ pc' = "crashed"
    /\ UNCHANGED <<out, dirExists, idx, nFiles, urls, tab_groups, all_urls, scanRet, written, html,
                   expected, repeats>>
    /\ UNCHANGED fixOnly

\* "if success:" export_to_html and the closing messages
MainExport ==
    /\ pc = "returned"
    /\ scanRet.tuple
    /\ scanRet.success
    /\ html' = ExportToHtml(scanRet.urls)
    /\ written' = written \cup {"html"}
    /\ out' = out \cup {"exported", "recovery_completed"}
    /\ pc' = "done"
    /\ UNCHANGED <<dirExists, idx, nFiles, urls, tab_groups, all_urls, scanRet, expected, repeats>>
    /\ UNCHANGED fixOnly

\* "else:" Unable to extract OneTab data
MainUnable ==
    /\ pc = "returned"
    /\ scanRet.tuple
    /\ ~scanRet.success
    /\ out' = out \cup {"unable_to_extract"}
    /\ pc' = "done"
    /\ UNCHANGED <<dirExists, idx, nFiles, urls, tab_groups, all_urls, scanRet, written, html,
                   expected, repeats>>
    /\ UNCHANGED fixOnly

NextScan ==
    \/ ScanNoDir \/ ScanNoFiles \/ ScanBegin \/ ScanFile \/ ScanFileError
    \/ ScanMergeRaises \/ ScanMerge
    \/ MainUnpackRaises \/ MainExport \/ MainUnable

\* a run of main of extract_onetab.py
SpecScan == InitScan /\ [][NextScan]_vars

\* export_to_html(urls, output_file) called on a record list
InitHtml ==
    /\ pc = "export"
    /\ out = {}
    /\ dirExists = TRUE
    /\ nFiles = 0
    /\ idx = 0
    /\ urls = <<>>
    /\ tab_groups = <<>>
    /\ all_urls \in RecordLists
    /\ scanRet = NoReturn
    /\ written = {}
    /\ html = <<>>
    /\ expected = {}
    /\ repeats = {}
    /\ FixIdle

Export ==
    /\ pc = "export"
    /\ html' = ExportToHtml(all_urls)
    /\ written' = written \cup {"html"}
    /\ out' = out \cup {"exported"}
    /\ pc' = "exported"
    /\ UNCHANGED <<dirExists, idx, nFiles, urls, tab_groups, all_urls, scanRet, expected, repeats>>
    /\ UNCHANGED fixOnly

SpecHtml == InitHtml /\ [][Export]_vars

-----------------------------------------------------------------------------
(* Claims about the reconstructor *)

RegularFiles(entries) == {f \in entries : IsFile(f)}

\* backup_extension_data has returned and every regular file is in the backup
BackupFinished == "backup_created" \in out /\ RegularFiles(dir0) \subseteq backup

\* C1: no step of main changes the entries of the target directory before
\* backup_extension_data has finished copying every regular file of it.
C1_NoChangeBeforeBackup == [][dir' # dir => BackupFinished]_vars

\* a data file and a log file were removed, after both were backed up
C1_Witness ==
    /\ pc = "done"
    /\ {Ldb1, Log1} \subseteq dir0
    /\ {Ldb1, Log1} \cap dir = {}
    /\ {Ldb1, Log1} \subseteq backup

\* the tabs of the written state document, as <<group index, tab index>>
TabPositions(doc) == {<<i, j>> \in (1..Len(doc)) \X (1..MaxRecords + 1) : j <= Len(doc[i].tabs)}

\* C4: in the written state document no two Tabs share an id and no two
\* TabGroups share an id.
C4_IdsDistinct ==
    stateFile # <<>> =>
        LET doc == stateFile[1].tabGroups
        IN /\ \A p, q \in TabPositions(doc) :
                 p # q => doc[p[1]].tabs[p[2]].id # doc[q[1]].tabs[q[2]].id
           /\ \A i, k \in 1..Len(doc) : i # k => doc[i].id # doc[k].id

\* C5: after a successful fix_extension with clear_db, no entry matches *.ldb
\* or *.log, and every entry that matched neither is still there.
C5_ClearRemovesDataKeepsControl ==
    (pc = "done" /\ ret = "True" /\ clear_db) =>
        /\ Glob(dir, ".ldb") = {}
        /\ Glob(dir, ".log") = {}
        /\ \A f \in dir0 : Last(f) \notin {".ldb", ".log"} => f \in dir

C5_Witness ==
    /\ pc = "done" /\ ret = "True" /\ clear_db
    /\ dir0 = {Ldb1, Log1, Current}
    /\ dir = {Current}

\* the message fix_extension prints for the failure it returns with
LoadError ==
    IF ~dirExists THEN "error_no_extension_path"
    ELSE IF recKind = "missing" THEN "error_no_urls_json" ELSE "error_loading_urls"

\* C6: with a missing or malformed records file, fix_extension reports the
\* error and returns False; no entry is removed and no state file is written.
C6_BadRecordsAbortBeforeMutation ==
    recKind \in {"missing", "malformed"} =>
        /\ dir = dir0
        /\ stateFile = <<>>
        /\ pc \in {"report", "done"} => (ret = "False" /\ LoadError \in out)

C6_Witness ==
    /\ pc = "done"
    /\ recKind = "malformed"
    /\ clear_db
    /\ Ldb1 \in dir0

HasAllFields(e) == e.title # Absent /\ e.group # Absent

GroupValues(recs) == {recs[i].group : i \in 1..Len(recs)}

\* the positions of the records of group g, and the first of them
PositionsOf(recs, g) == {i \in 1..Len(recs) : recs[i].group = g}
FirstPosition(recs, g) == CHOOSE i \in PositionsOf(recs, g) : \A k \in PositionsOf(recs, g) : i <= k

\* the n-th smallest element of a set of numbers
NthOf(S, n) == CHOOSE i \in S : Cardinality({k \in S : k < i}) = n - 1

\* the group that is the n-th to appear in recs
NthGroup(recs, n) ==
    CHOOSE g \in GroupValues(recs) :
        Cardinality({h \in GroupValues(recs) : FirstPosition(recs, h) < FirstPosition(recs, g)}) = n - 1

\* the tab groups hold the records grouped by group value, groups in
\* first-seen order, tabs in input order
GroupedInOrder(doc, recs) ==
    /\ Len(doc) = Cardinality(GroupValues(recs))
    /\ \A n \in 1..Len(doc) :
          LET g == NthGroup(recs, n)
              at == PositionsOf(recs, g)
          IN /\ doc[n].name = (IF g = "Unknown Group" THEN "" ELSE g)
             /\ Len(doc[n].tabs) = Cardinality(at)
             /\ \A j \in 1..Len(doc[n].tabs) :
                   /\ doc[n].tabs[j].url = recs[NthOf(at, j)].url
                   /\ doc[n].tabs[j].title = recs[NthOf(at, j)].title

\* C7: for records that all have url, title and group, the written state
\* document has one TabGroup per distinct group value in first-seen order, each
\* holding its records in input order as Tabs with the record's url and title,
\* named by the group value, the placeholder "Unknown Group" giving "".
C7_StateDocumentGroupsRecords ==
    (stateFile # <<>> /\ \A i \in 1..Len(urls_data) : HasAllFields(urls_data[i])) =>
        GroupedInOrder(stateFile[1].tabGroups, urls_data)

\* three records, the groups interleaved, one of them the placeholder
C7_Witness ==
    /\ stateFile # <<>>
    /\ Len(urls_data) = 3
    /\ \A i \in 1..3 : HasAllFields(urls_data[i])
    /\ urls_data[1].group = "G1" /\ urls_data[2].group = "Unknown Group"
    /\ urls_data[3].group = "G1"
    /\ Len(stateFile[1].tabGroups) = 2

\* C9: when main reports that the fix failed and that no changes were made,
\* every entry the directory had before the run is still there.
C9_FailureLeavesDirUntouched ==
    (pc = "done" /\ ret = "False") => dir = dir0

-----------------------------------------------------------------------------
(* Claims about the scanner *)

\* C2: the merged record list that extract_onetab_data_from_files returns
\* holds no two records with the same url.
C2_MergedUrlsUnique ==
    \A i, j \in 1..Len(scanRet.urls) : i # j => scanRet.urls[i].url # scanRet.urls[j].url

\* a list was returned after http://a occurred repeatedly in the scanned text,
\* in two stored documents among others
C2_Witness ==
    /\ pc = "done"
    /\ scanRet.success
    /\ "http://a" \in repeats
    /\ [url |-> "http://a", title |-> "A", group |-> "G1"] \in expected
    /\ [url |-> "http://a", title |-> "A", group |-> "Unnamed Group"] \in expected

\* the scanned files yielded no record
ZeroRecords ==
    /\ nFiles > 0
    /\ idx > nFiles
    /\ urls = <<>>
    /\ StructuralRecords(tab_groups) = <<>>

\* C3: a run of the scanner on a missing directory, on a directory without
\* storage files or on files that yield no record reports the failure, writes
\* no output file and ends normally.
C3_ScanFailuresEndNormally ==
    (pc \in {"done", "crashed"} /\ (~dirExists \/ nFiles = 0 \/ ZeroRecords)) =>
        /\ pc = "done"
        /\ written = {}
        /\ out \cap {"error_no_directory", "no_files_found", "no_urls_found"} # {}

\* the lines between the header and the footer of the bookmark file
HtmlBody(lines) == SubSeq(lines, Len(HtmlHeader) + 1, Len(lines) - Len(HtmlFooter))

HeadingPositions(body) == {i \in 1..Len(body) : body[i][1] = "H3"}

\* the link entries of the n-th heading section
SectionLinks(body, n) ==
    LET at == HeadingPositions(body)
        first == NthOf(at, n) + 1
        last == IF n < Cardinality(at) THEN NthOf(at, n + 1) - 1 ELSE Len(body)
        isLink(l) == l[1] = "A"
    IN SelectSeq(SubSeq(body, first, last), isLink)

\* the records with the group label export_to_html files them under
Labelled(recs) ==
    [i \in 1..Len(recs) |->
        [url |-> recs[i].url, title |-> recs[i].title,
         group |-> IF recs[i].group = Absent THEN "Unknown Group" ELSE recs[i].group]]

HtmlGroupsRecords(body, recs) ==
    /\ Cardinality(HeadingPositions(body)) = Cardinality(GroupValues(recs))
    /\ Cardinality({i \in 1..Len(body) : body[i][1] = "A"}) = Len(recs)
    /\ \A n \in 1..Cardinality(GroupValues(recs)) :
          LET g == NthGroup(recs, n)
              at == PositionsOf(recs, g)
              links == SectionLinks(body, n)
          IN /\ body[NthOf(HeadingPositions(body), n)][2] = g
             /\ Len(links) = Cardinality(at)
             /\ \A j \in 1..Len(links) :
                   /\ links[j][2] = recs[NthOf(at, j)].url
                   /\ recs[NthOf(at, j)].title \notin {"", Absent}
                         => links[j][3] = recs[NthOf(at, j)].title

\* C8: the HTML output of export_to_html has one heading section per distinct
\* group label, in first-seen order of the groups; the links of a section are
\* the records of its group in input order; every record is exactly one link.
C8_HtmlGroupsInOrder ==
    pc = "exported" => HtmlGroupsRecords(HtmlBody(html), Labelled(all_urls))

C8_Witness ==
    /\ pc = "exported"
    /\ Len(all_urls) = 3
    /\ all_urls[1].group = "G1" /\ all_urls[2].group = "Unknown Group"
    /\ all_urls[3].group = "G1"
    /\ all_urls[1].url # all_urls[3].url
    /\ Cardinality(HeadingPositions(HtmlBody(html))) = 2

\* C10: the result of extract_onetab_data_from_files holds, for every tab of a
\* tabGroups document in the scanned text, a record with the tab's url, its
\* title and the name of its group.
C10_StructuredTabsRecovered ==
    (pc \in {"returned", "done"} /\ scanRet.tuple) =>
        \A r \in expected : r \in Range(scanRet.urls)

====
